---- MODULE Spec2Model ----
(***************************************************************************)
(* A model of retrieval/gcp_index.py: the VertexIndex client, its lazy     *)
(* create-or-reuse provisioning of a remote index and endpoint, the        *)
(* embedding batch pipeline with its staging file, and search.             *)
(*                                                                         *)
(* Every client is a VertexIndex object.  A public call (load_index,       *)
(* load_endpoint, search) runs as a sequence of steps, one per remote or   *)
(* I/O interaction; pc is the client's position in the code and stack the  *)
(* return positions of its pending calls.  The remote services (index      *)
(* registry, endpoint registry, bucket) and the local staging file are     *)
(* shared by all clients.                                                  *)
(***************************************************************************)
EXTENDS Integers, Sequences, FiniteSets, TLC

\* ------------------------------------------------------------------ bounds
\* Largest corpus (number of passages in corpus.jsonl).
MaxN == 3
\* Largest value of gpu_embedder_batch_size (512 in the source, scaled down).
MaxB == 2
\* Largest topk of a search.
MaxK == 1

Clients == {1, 2}
Models == {"m1", "m2"}
\* Raw distance values the backend may report.
Dists == {1, 2}

\* Python's None; a bound handle is the one-element tuple of what it names.
None == <<>>

\* ------------------------------------------------------------------ naming
\* __init__: self.index_name = f"index_{model_path}"
index_name(m) == "index_" \o m
\* __init__: self.endpoint_name = f"endpoint_{model_path}"
endpoint_name(m) == "endpoint_" \o m
\* __init__: self.dim, the output size of the model the client is built for.
dim(m) == IF m = "m1" THEN 2 ELSE 3

\* Attributes a VertexIndex object has: the class attributes and the ones
\* __init__ sets.  There is no attribute named doc.
Attrs ==
    {"index", "endpoint", "PROJECT_ID", "REGION", "MACHINE_TYPE",
     "GCS_BUCKET_NAME", "GCS_BUCKET_URI", "TMP_FILE_PATH",
     "dim", "model", "index_name", "endpoint_name", "doc_map"}

\* ------------------------------------------------------------------ helpers
Min(a, b) == IF a < b THEN a ELSE b

\* load_passages(filenames=["corpus.jsonl"]): the n passages of the corpus.
load_passages(n) == [k \in 1..n |-> "p" \o ToString(k - 1)]

\* {i: doc for i, doc in enumerate(passages)}
enumerate_map(passages) == [i \in 0..(Len(passages) - 1) |-> passages[i + 1]]

\* math.ceil(len(passages) / gpu_embedder_batch_size)
n_batch(n, b) == IF n % b = 0 THEN n \div b ELSE (n \div b) + 1

\* range(i * B, (i + 1) * B), as the sequence of its b values.
batch_indices(i, b) == [k \in 1..b |-> i * b + (k - 1)]

\* passages[i * B : (i + 1) * B]; a Python slice stops at the end of the list.
batch_slice(passages, i, b) ==
    SubSeq(passages, i * b + 1, Min((i + 1) * b, Len(passages)))

\* model.encode(batch): one vector of dim(m) components for each passage.
encode(m, batch) ==
    [j \in 1..Len(batch) |-> [k \in 1..dim(m) |-> k]]

\* A mutation of format_records: one record per index, also past the
\* last embedding of a short batch.
format_records_all_indices(embeddings, indices) ==
    [j \in 1..Len(indices) |->
        [id |-> ToString(indices[j]),
         embedding |-> IF j <= Len(embeddings)
                       THEN [k \in 1..Len(embeddings[j]) |-> ToString(embeddings[j][k])]
                       ELSE <<>>]]
\* The records _write_embeddings_to_tmp_file writes: zip(indices, embeddings)
\* stops at the shorter of the two; ids and components are written as text.
format_records(embeddings, indices) ==
    [j \in 1..Min(Len(indices), Len(embeddings)) |->
        [id |-> ToString(indices[j]),
         embedding |-> [k \in 1..Len(embeddings[j]) |-> ToString(embeddings[j][k])]]]

\* sorted(response[0], key=lambda x: x.distance, reverse=True): a stable sort
\* by descending distance (equal distances keep the response's order).
RECURSIVE insert_desc(_, _)
insert_desc(x, s) ==
    IF s = <<>> THEN <<x>>
    ELSE IF Head(s).distance >= x.distance
         THEN <<Head(s)>> \o insert_desc(x, Tail(s))
         ELSE <<x>> \o s
RECURSIVE sorted_desc(_)
sorted_desc(s) ==
    IF s = <<>> THEN <<>>
    ELSE LET n == Len(s) IN insert_desc(s[n], sorted_desc(SubSeq(s, 1, n - 1)))

\* ------------------------------------------------------------------ state
VARIABLES
    corpus_size,   \* number of passages in corpus.jsonl
    batch_size,    \* gpu_embedder_batch_size
    fleet,         \* the models clients are constructed for
    model,         \* model[c]: the model client c was constructed for
    index,         \* self.index: None or <<id of a remote index>>
    endpoint,      \* self.endpoint: None or <<name of a remote endpoint>>
    doc_map,       \* self.doc_map
    pc,            \* position of client c in the code
    stack,         \* return positions of the pending calls of client c
    frame,         \* locals of the running _write_embeddings / search
    tmp_file,      \* the records of tmp.json (TMP_FILE_PATH)
    blob,          \* the object tmp.json of the bucket
    indexes,       \* remote index resources, by id: display name, dimension,
                   \* records bulk-loaded, number of bulk-updates, creator
    endpoints,     \* remote endpoint resources, by display name
    existed,       \* whether the index of client c's name existed when c was built
    call,          \* the running or last finished public call of client c
    prev           \* a summary of the public call of client c before that

client_vars == <<index, endpoint, doc_map, pc, stack, frame>>
remote_vars == <<tmp_file, blob, indexes, endpoints>>
input_vars == <<corpus_size, batch_size, fleet>>
ghost_vars == <<call, prev>>
build_vars == <<model, existed>>
vars == <<corpus_size, batch_size, fleet, model, index, endpoint, doc_map, pc, stack,
          frame, tmp_file, blob, indexes, endpoints, existed, call, prev>>

NoBlob == [exists |-> FALSE, data |-> <<>>]
NoFrame == [passages |-> <<>>, n |-> 0, i |-> 0, embeddings |-> <<>>,
            topk |-> 0, answered |-> FALSE, response |-> <<>>]
NoOutcome == [kind |-> "none", err |-> "", docs |-> <<>>]
NoCall == [op |-> "none", trace |-> <<>>, outcome |-> NoOutcome,
           pre |-> [index |-> None, endpoint |-> None, doc_map |-> <<>>,
                    tmp_file |-> <<>>, blob |-> NoBlob,
                    index_exists |-> FALSE, endpoint_exists |-> FALSE]]
\* What is kept of a finished public call for the call after it: the
\* operation, whether the resource it provisions was absent when it started,
\* and how many create and deploy requests it made.
summary(cl) ==
    [op |-> cl.op,
     index_absent |-> cl.op = "load_index" /\ ~cl.pre.index_exists,
     endpoint_absent |-> cl.op = "load_endpoint" /\ ~cl.pre.endpoint_exists,
     creates |-> Cardinality({j \in DOMAIN cl.trace :
                                 cl.trace[j].ev = "create_index"}),
     deploys |-> Cardinality({j \in DOMAIN cl.trace :
                                 cl.trace[j].ev = "deploy"})]

\* Ids of the remote indexes whose display name is name.
index_ids(name) == {r \in DOMAIN indexes : indexes[r].name = name}

\* A mutation of index_exists: the listing never finds the index.
index_exists_never(name) == FALSE
\* _index_exists: len(list(filter=display_name)) is truthy when not empty.
index_exists(name) == Cardinality(index_ids(name)) > 0

\* _endpoint_exists
endpoint_exists(name) == name \in DOMAIN endpoints

\* The records a remote index built elsewhere for model m holds.
remote_records(m, n) == format_records(encode(m, load_passages(n)),
                                       [k \in 1..n |-> k - 1])

\* The remote state a client may find for a model: the index is absent or
\* present, and the endpoint is absent, present with nothing deployed under
\* the index's name, or present with an index deployed under that name (the
\* index of that display name, or one that no longer carries it).
PreStates == [ix : BOOLEAN, ep : {"absent", "empty", "deployed"}]

\* The remote indexes that exist before any client runs.
init_indexes(ps, n) ==
    LET present == {m \in Models : ps[m].ix \/ ps[m].ep = "deployed"}
        order == IF present = {} THEN <<>>
                 ELSE IF present = Models THEN <<"m1", "m2">>
                 ELSE <<CHOOSE m \in present : TRUE>>
    IN [r \in 1..Len(order) |->
          [name |-> IF ps[order[r]].ix THEN index_name(order[r])
                    ELSE "renamed_" \o order[r],
           dim |-> dim(order[r]),
           records |-> remote_records(order[r], n),
           updates |-> 1,
           by |-> 0]]

\* The remote endpoints that exist before any client runs.
init_endpoints(ps, ixs) ==
    LET present == {m \in Models : ps[m].ep # "absent"}
    IN [e \in {endpoint_name(m) : m \in present} |->
          LET m == CHOOSE mm \in present : endpoint_name(mm) = e
          IN IF ps[m].ep = "deployed"
             THEN {[deployed_index_id |-> index_name(m),
                    index |-> CHOOSE r \in DOMAIN ixs :
                                 ixs[r].dim = dim(m) /\ ixs[r].by = 0]}
             ELSE {}]

\* The state after the clients are constructed: models are the models in
\* use, remote the models that may have remote resources already, and live
\* the clients that are used.
init(models, remote, live) ==
    /\ corpus_size \in 0..MaxN
    /\ batch_size \in 1..MaxB
    /\ fleet = models
    /\ model \in [Clients -> models]
    /\ \A c \in Clients \ live : model[c] = "m1"
    /\ \E ps \in [Models -> PreStates] :
          /\ \A m \in Models \ remote : ps[m] = [ix |-> FALSE, ep |-> "absent"]
          /\ indexes = init_indexes(ps, corpus_size)
          /\ endpoints = init_endpoints(ps, indexes)
    /\ existed = [c \in Clients |-> index_ids(index_name(model[c])) # {}]
    /\ index = [c \in Clients |-> None]
    /\ endpoint = [c \in Clients |-> None]
    /\ doc_map = [c \in Clients |-> <<>>]
    /\ pc = [c \in Clients |-> "idle"]
    /\ stack = [c \in Clients |-> <<>>]
    /\ frame = [c \in Clients |-> NoFrame]
    /\ tmp_file = <<>>
    /\ blob = NoBlob
    /\ call = [c \in Clients |-> NoCall]
    /\ prev = [c \in Clients |-> summary(NoCall)]

\* One process at a time owns the client: it is used sequentially and may
\* be rebuilt between calls.
Serial == {1}

\* The models that may have remote resources before any client runs.
RemoteModels == {"m1"}

Init == init(Models, RemoteModels, Serial)

\* ------------------------------------------------------------------ control
\* The call of client c with one more remote or I/O interaction recorded.
logged(c, ev, arg) ==
    [call[c] EXCEPT !.trace = Append(@, [ev |-> ev, arg |-> arg])]

\* Control moves to position to.
goes(c, cl, to) ==
    /\ pc' = [pc EXCEPT ![c] = to]
    /\ stack' = stack
    /\ call' = [call EXCEPT ![c] = cl]

\* The running function returns: to its caller, or the public call ends.
returns(c, cl, docs) ==
    IF stack[c] = <<>>
    THEN /\ pc' = [pc EXCEPT ![c] = "done"]
         /\ stack' = stack
         /\ call' = [call EXCEPT ![c] =
                        [cl EXCEPT !.outcome =
                            [kind |-> "ok", err |-> "", docs |-> docs]]]
    ELSE /\ pc' = [pc EXCEPT ![c] = Head(stack[c])]
         /\ stack' = [stack EXCEPT ![c] = Tail(@)]
         /\ call' = [call EXCEPT ![c] = cl]

\* An exception: nothing in the file catches one, so it unwinds every
\* pending call and ends the public call.
raises(c, cl, err) ==
    /\ pc' = [pc EXCEPT ![c] = "done"]
    /\ stack' = [stack EXCEPT ![c] = <<>>]
    /\ call' = [call EXCEPT ![c] =
                  [cl EXCEPT !.outcome =
                      [kind |-> "error", err |-> err, docs |-> <<>>]]]

\* Client c enters the public operation op at position at.  The locals of
\* finished calls are gone; of a finished call only its summary is kept.
begins(c, op, at, topk) ==
    /\ pc[c] \in {"idle", "done"}
    /\ pc' = [d \in Clients |->
                IF d = c THEN at ELSE IF pc[d] = "done" THEN "idle" ELSE pc[d]]
    /\ stack' = stack
    /\ frame' = [d \in Clients |->
                   IF d = c THEN [NoFrame EXCEPT !.topk = topk]
                   ELSE IF pc[d] = "done" THEN NoFrame ELSE frame[d]]
    /\ prev' = [d \in Clients |->
                  IF pc[d] = "done" THEN summary(call[d]) ELSE prev[d]]
    /\ call' = [d \in Clients |->
          IF d = c
          THEN [op |-> op, trace |-> <<>>, outcome |-> NoOutcome,
                pre |-> [index |-> index[c], endpoint |-> endpoint[c],
                         doc_map |-> doc_map[c], tmp_file |-> tmp_file,
                         blob |-> blob,
                         index_exists |-> index_ids(index_name(model[c])) # {},
                         endpoint_exists |->
                             endpoint_name(model[c]) \in DOMAIN endpoints]]
          ELSE IF pc[d] = "done" THEN NoCall ELSE call[d]]
    /\ UNCHANGED <<index, endpoint, doc_map>>
    /\ UNCHANGED remote_vars
    /\ UNCHANGED <<input_vars, build_vars>>

\* ------------------------------------------------------------------ __init__
\* __init__, lines 25-32 (and the class attributes of lines 16-17): the
\* process restarts and builds its client anew, for model m.
construct(c, m) ==
    /\ pc[c] \in {"idle", "done"}
    /\ m \in fleet
    /\ model' = [model EXCEPT ![c] = m]
    /\ index' = [index EXCEPT ![c] = None]
    /\ endpoint' = [endpoint EXCEPT ![c] = None]
    /\ doc_map' = [doc_map EXCEPT ![c] = <<>>]
    /\ pc' = [pc EXCEPT ![c] = "idle"]
    /\ frame' = [frame EXCEPT ![c] = NoFrame]
    /\ call' = [call EXCEPT ![c] = NoCall]
    /\ prev' = [prev EXCEPT ![c] = summary(NoCall)]
    /\ existed' = [existed EXCEPT ![c] = index_ids(index_name(m)) # {}]
    /\ UNCHANGED stack
    /\ UNCHANGED remote_vars
    /\ UNCHANGED input_vars

\* ------------------------------------------------------------------ load_index
\* A caller invokes load_index().
call_load_index(c) == begins(c, "load_index", "load_index", 0)

\* load_index, line 111: if self._index_exists()
load_index_check(c) ==
    /\ pc[c] = "load_index"
    /\ goes(c, logged(c, "list_index", <<>>),
            IF index_exists(index_name(model[c]))
            THEN "bind_index" ELSE "create_index")
    /\ UNCHANGED <<index, endpoint, doc_map, frame, prev>>
    /\ UNCHANGED remote_vars
    /\ UNCHANGED <<input_vars, build_vars>>

\* A mutation of load_index_bind: the branch that found the index also
\* reads the corpus into the DocMap.
load_index_bind_reads_corpus(c) ==
    /\ pc[c] = "bind_index"
    /\ \E r \in index_ids(index_name(model[c])) :
          index' = [index EXCEPT ![c] = <<r>>]
    /\ doc_map' = [doc_map EXCEPT ![c] =
                      enumerate_map(load_passages(corpus_size))]
    /\ returns(c, logged(c, "bind_index", <<>>), <<>>)
    /\ UNCHANGED <<endpoint, frame, prev>>
    /\ UNCHANGED remote_vars
    /\ UNCHANGED <<input_vars, build_vars>>
\* load_index, lines 112-114: bind the handle to the index of that name.
load_index_bind(c) ==
    /\ pc[c] = "bind_index"
    /\ \E r \in index_ids(index_name(model[c])) :
          index' = [index EXCEPT ![c] = <<r>>]
    /\ returns(c, logged(c, "bind_index", <<>>), <<>>)
    /\ UNCHANGED <<endpoint, doc_map, frame, prev>>
    /\ UNCHANGED remote_vars
    /\ UNCHANGED <<input_vars, build_vars>>

\* A mutation of create_index_body: the upload runs before the embeddings
\* are written.
create_index_body_upload_first ==
    <<"create_index", "upload", "write_embeddings", "update_embeddings">>
\* _create_index, lines 90-106: the order of its four statements.
create_index_body ==
    <<"create_index", "write_embeddings", "upload", "update_embeddings">>

\* The statement of _create_index after statement s.
after(s) ==
    LET k == CHOOSE j \in 1..Len(create_index_body) : create_index_body[j] = s
    IN IF k < Len(create_index_body) THEN create_index_body[k + 1] ELSE "return"

\* Statement s of _create_index is finished.
finishes(c, cl, s) ==
    IF after(s) = "return" THEN returns(c, cl, <<>>) ELSE goes(c, cl, after(s))

\* A mutation of create_index: a create request for a display name that is
\* taken makes no index and hands back the one there is.
create_index_once(c) ==
    /\ pc[c] = "create_index"
    /\ IF index_ids(index_name(model[c])) = {}
       THEN /\ indexes' = Append(indexes,
                                 [name |-> index_name(model[c]),
                                  dim |-> dim(model[c]),
                                  records |-> <<>>, updates |-> 0, by |-> c])
            /\ index' = [index EXCEPT ![c] = <<Len(indexes) + 1>>]
       ELSE /\ indexes' = indexes
            /\ \E r \in index_ids(index_name(model[c])) :
                  index' = [index EXCEPT ![c] = <<r>>]
    /\ finishes(c, logged(c, "create_index", <<>>), "create_index")
    /\ UNCHANGED <<endpoint, doc_map, frame, prev, tmp_file, blob, endpoints>>
    /\ UNCHANGED <<input_vars, build_vars>>

\* _create_index, lines 90-96: create the empty remote index.
create_index(c) ==
    /\ pc[c] = "create_index"
    /\ indexes' = Append(indexes,
                         [name |-> index_name(model[c]), dim |-> dim(model[c]),
                          records |-> <<>>, updates |-> 0, by |-> c])
    /\ index' = [index EXCEPT ![c] = <<Len(indexes) + 1>>]
    /\ finishes(c, logged(c, "create_index", <<>>), "create_index")
    /\ UNCHANGED <<endpoint, doc_map, frame, prev, tmp_file, blob, endpoints>>
    /\ UNCHANGED <<input_vars, build_vars>>

\* _write_embeddings, lines 59-63: read the corpus, rebuild the DocMap.
write_embeddings(c) ==
    /\ pc[c] = "write_embeddings"
    /\ LET passages == load_passages(corpus_size)
           n == n_batch(Len(passages), batch_size)
       IN /\ doc_map' = [doc_map EXCEPT ![c] = enumerate_map(passages)]
          /\ frame' = [frame EXCEPT ![c] =
                          [@ EXCEPT !.passages = passages, !.n = n, !.i = 0]]
          /\ IF n > 0 THEN goes(c, call[c], "encode")
             ELSE finishes(c, call[c], "write_embeddings")
    /\ UNCHANGED <<index, endpoint, prev>>
    /\ UNCHANGED remote_vars
    /\ UNCHANGED <<input_vars, build_vars>>

\* _write_embeddings, lines 65-71: slice batch i and encode it.
encode_batch(c) ==
    /\ pc[c] = "encode"
    /\ LET batch == batch_slice(frame[c].passages, frame[c].i, batch_size)
       IN /\ frame' = [frame EXCEPT ![c].embeddings = encode(model[c], batch)]
          /\ goes(c, logged(c, "encode", batch), "stage")
    /\ UNCHANGED <<index, endpoint, doc_map, prev>>
    /\ UNCHANGED remote_vars
    /\ UNCHANGED <<input_vars, build_vars>>

\* A mutation of encode_fails: the exception is swallowed and the pipeline
\* goes on to the upload.
encode_fails_swallowed(c) ==
    /\ pc[c] = "encode"
    /\ finishes(c, logged(c, "encode_failed", <<>>), "write_embeddings")
    /\ UNCHANGED <<index, endpoint, doc_map, frame, prev>>
    /\ UNCHANGED remote_vars
    /\ UNCHANGED <<input_vars, build_vars>>
\* _write_embeddings, lines 67-70: the embedding model raises.
encode_fails(c) ==
    /\ pc[c] = "encode"
    /\ raises(c, logged(c, "encode_failed", <<>>), "ModelError")
    /\ UNCHANGED <<index, endpoint, doc_map, frame, prev>>
    /\ UNCHANGED remote_vars
    /\ UNCHANGED <<input_vars, build_vars>>

\* A mutation of write_embeddings_to_tmp_file: tmp.json is opened for
\* writing instead of appending, which truncates it.
write_embeddings_to_tmp_file_truncates(c) ==
    /\ pc[c] = "stage"
    /\ LET records == format_records(frame[c].embeddings,
                                     batch_indices(frame[c].i, batch_size))
       IN /\ tmp_file' = records
          /\ frame' = [frame EXCEPT ![c].i = @ + 1]
          /\ LET cl == logged(c, "stage",
                              [j \in 1..Len(records) |-> records[j].id])
             IN IF frame[c].i + 1 < frame[c].n
                THEN goes(c, cl, "encode")
                ELSE finishes(c, cl, "write_embeddings")
    /\ UNCHANGED <<index, endpoint, doc_map, prev, blob, indexes, endpoints>>
    /\ UNCHANGED <<input_vars, build_vars>>
\* _write_embeddings line 72 and _write_embeddings_to_tmp_file, lines 43-55:
\* append the batch's records to tmp.json; then the next batch, if any.
write_embeddings_to_tmp_file(c) ==
    /\ pc[c] = "stage"
    /\ LET records == format_records(frame[c].embeddings,
                                     batch_indices(frame[c].i, batch_size))
       IN /\ tmp_file' = tmp_file \o records
          /\ frame' = [frame EXCEPT ![c].i = @ + 1]
          /\ LET cl == logged(c, "stage",
                              [j \in 1..Len(records) |-> records[j].id])
             IN IF frame[c].i + 1 < frame[c].n
                THEN goes(c, cl, "encode")
                ELSE finishes(c, cl, "write_embeddings")
    /\ UNCHANGED <<index, endpoint, doc_map, prev, blob, indexes, endpoints>>
    /\ UNCHANGED <<input_vars, build_vars>>

\* _write_embeddings_to_tmp_file, line 44: tmp.json cannot be opened.
write_embeddings_to_tmp_file_fails(c) ==
    /\ pc[c] = "stage"
    /\ raises(c, logged(c, "stage_failed", <<>>), "OSError")
    /\ UNCHANGED <<index, endpoint, doc_map, frame, prev>>
    /\ UNCHANGED remote_vars
    /\ UNCHANGED <<input_vars, build_vars>>

\* _upload_embedding_file, lines 80-84: tmp.json replaces the bucket object.
upload_embedding_file(c) ==
    /\ pc[c] = "upload"
    /\ blob' = [exists |-> TRUE, data |-> tmp_file]
    /\ finishes(c, logged(c, "upload", <<>>), "upload")
    /\ UNCHANGED <<index, endpoint, doc_map, frame, prev, tmp_file, indexes,
                   endpoints>>
    /\ UNCHANGED <<input_vars, build_vars>>

\* _upload_embedding_file, line 84: the upload raises.
upload_embedding_file_fails(c) ==
    /\ pc[c] = "upload"
    /\ raises(c, logged(c, "upload_failed", <<>>), "UploadError")
    /\ UNCHANGED <<index, endpoint, doc_map, frame, prev>>
    /\ UNCHANGED remote_vars
    /\ UNCHANGED <<input_vars, build_vars>>

\* _create_index, lines 104-106: bulk-update the index from the bucket.
update_embeddings(c) ==
    /\ pc[c] = "update_embeddings"
    /\ indexes' = [indexes EXCEPT ![index[c][1]].records = @ \o blob.data,
                                  ![index[c][1]].updates = @ + 1]
    /\ finishes(c, logged(c, "update_embeddings", <<>>), "update_embeddings")
    /\ UNCHANGED <<index, endpoint, doc_map, frame, prev, tmp_file, blob,
                   endpoints>>
    /\ UNCHANGED <<input_vars, build_vars>>

\* ------------------------------------------------------------------ load_endpoint
\* A caller invokes load_endpoint().
call_load_endpoint(c) == begins(c, "load_endpoint", "load_endpoint", 0)

\* A mutation of needs_index: load_endpoint never provisions the index.
needs_index_never(c) == FALSE
\* load_endpoint, line 128: if self.index is None
needs_index(c) == index[c] = None

\* load_endpoint, lines 128-129: run load_index() first if no handle is held.
load_endpoint_entry(c) ==
    /\ pc[c] = "load_endpoint"
    /\ IF needs_index(c)
       THEN /\ pc' = [pc EXCEPT ![c] = "load_index"]
            /\ stack' = [stack EXCEPT ![c] = <<"endpoint_check">> \o @]
       ELSE /\ pc' = [pc EXCEPT ![c] = "endpoint_check"]
            /\ stack' = stack
    /\ UNCHANGED <<index, endpoint, doc_map, frame>>
    /\ UNCHANGED remote_vars
    /\ UNCHANGED <<input_vars, build_vars>>
    /\ UNCHANGED ghost_vars

\* load_endpoint, line 131: if self._endpoint_exists()
load_endpoint_check(c) ==
    /\ pc[c] = "endpoint_check"
    /\ goes(c, logged(c, "list_endpoint", <<>>),
            IF endpoint_exists(endpoint_name(model[c]))
            THEN "bind_endpoint" ELSE "deploy")
    /\ UNCHANGED <<index, endpoint, doc_map, frame, prev>>
    /\ UNCHANGED remote_vars
    /\ UNCHANGED <<input_vars, build_vars>>

\* load_endpoint, lines 132-138: bind the handle to the endpoint of that name.
load_endpoint_bind(c) ==
    /\ pc[c] = "bind_endpoint"
    /\ endpoint' = [endpoint EXCEPT ![c] = <<endpoint_name(model[c])>>]
    /\ returns(c, logged(c, "bind_endpoint", <<>>), <<>>)
    /\ UNCHANGED <<index, doc_map, frame, prev>>
    /\ UNCHANGED remote_vars
    /\ UNCHANGED <<input_vars, build_vars>>

\* load_endpoint, lines 140-153.  The log message of line 141 reads
\* self.endpoint.display_name and line 143 calls self.endpoint.deploy_index:
\* with no endpoint handle both are attribute reads on None, and the first
\* raises before any deploy request is made.
load_endpoint_deploy(c) ==
    /\ pc[c] = "deploy"
    /\ IF endpoint[c] = None
       THEN /\ raises(c, call[c], "AttributeError")
            /\ endpoints' = endpoints
       ELSE /\ endpoints' = [endpoints EXCEPT ![endpoint[c][1]] =
                   @ \cup {[deployed_index_id |-> index_name(model[c]),
                            index |-> index[c][1]]}]
            /\ returns(c, logged(c, "deploy", <<>>), <<>>)
    /\ UNCHANGED <<index, endpoint, doc_map, frame, prev, tmp_file, blob,
                   indexes>>
    /\ UNCHANGED <<input_vars, build_vars>>

\* ------------------------------------------------------------------ search
\* A caller invokes search(query_embeds, topk).
call_search(c, topk) == begins(c, "search", "search", topk)

\* A mutation of needs_endpoint: search never provisions the endpoint.
needs_endpoint_never(c) == FALSE
\* search, line 157: if self.endpoint is None
needs_endpoint(c) == endpoint[c] = None

\* search, lines 157-158: run load_endpoint() first if no handle is held.
search_entry(c) ==
    /\ pc[c] = "search"
    /\ IF needs_endpoint(c)
       THEN /\ pc' = [pc EXCEPT ![c] = "load_endpoint"]
            /\ stack' = [stack EXCEPT ![c] = <<"match">> \o @]
       ELSE /\ pc' = [pc EXCEPT ![c] = "match"]
            /\ stack' = stack
    /\ UNCHANGED <<index, endpoint, doc_map, frame>>
    /\ UNCHANGED remote_vars
    /\ UNCHANGED <<input_vars, build_vars>>
    /\ UNCHANGED ghost_vars

\* What the backend may answer for the first query: at most topk neighbours
\* with distinct ids, drawn from the records of the deployed index r.
responses(r, topk) ==
    LET ids == {indexes[r].records[j].id : j \in DOMAIN indexes[r].records}
        neighbours == [id : ids, distance : Dists]
    IN {s \in UNION {[1..n -> neighbours] : n \in 0..Min(topk, Cardinality(ids))} :
           \A a, b \in DOMAIN s : a # b => s[a].id # s[b].id}

\* search, lines 160-164: the match request.  The backend answers for the
\* index deployed under deployed_index_id, and rejects an id it has not.
search_match(c) ==
    /\ pc[c] = "match"
    /\ IF endpoint[c] = None
       THEN /\ raises(c, call[c], "AttributeError")
            /\ frame' = frame
       ELSE LET deployed == {d \in endpoints[endpoint[c][1]] :
                               d.deployed_index_id = index_name(model[c])}
            IN IF deployed = {}
               THEN /\ raises(c, logged(c, "match", <<>>), "NotFound")
                    /\ frame' = frame
               ELSE \E d \in deployed :
                    \E response \in responses(d.index, frame[c].topk) :
                       /\ frame' = [frame EXCEPT ![c].answered = TRUE,
                                                 ![c].response = response]
                       /\ goes(c, logged(c, "match", <<>>), "map")
    /\ UNCHANGED <<index, endpoint, doc_map, prev>>
    /\ UNCHANGED remote_vars
    /\ UNCHANGED <<input_vars, build_vars>>

\* search, lines 165-167: sort the neighbours and map them to passages.
\* The comprehension reads self.doc once for each neighbour: with no
\* neighbour it returns [], otherwise the attribute lookup raises.  (The
\* DocMap itself has integer keys and the backend returns ids as text.)
search_map(c) ==
    /\ pc[c] = "map"
    /\ LET sorted_data == sorted_desc(frame[c].response)
       IN IF sorted_data = <<>>
          THEN returns(c, call[c], <<>>)
          ELSE IF "doc" \notin Attrs
               THEN raises(c, call[c], "AttributeError")
               ELSE raises(c, call[c], "KeyError")
    /\ UNCHANGED <<index, endpoint, doc_map, frame, prev>>
    /\ UNCHANGED remote_vars
    /\ UNCHANGED <<input_vars, build_vars>>

\* ------------------------------------------------------------------ system
\* The steps of load_index and of the pipeline of _create_index.
load_index_step(c) ==
    \/ load_index_check(c)
    \/ load_index_bind(c)
    \/ create_index(c)
    \/ write_embeddings(c)
    \/ encode_batch(c)
    \/ encode_fails(c)
    \/ write_embeddings_to_tmp_file(c)
    \/ write_embeddings_to_tmp_file_fails(c)
    \/ upload_embedding_file(c)
    \/ upload_embedding_file_fails(c)
    \/ update_embeddings(c)

\* The steps of load_endpoint.
load_endpoint_step(c) ==
    \/ load_endpoint_entry(c)
    \/ load_endpoint_check(c)
    \/ load_endpoint_bind(c)
    \/ load_endpoint_deploy(c)

\* The steps of search.
search_step(c) ==
    \/ search_entry(c)
    \/ search_match(c)
    \/ search_map(c)

step(c) == load_index_step(c) \/ load_endpoint_step(c) \/ search_step(c)

start(c) ==
    \/ call_load_index(c)
    \/ call_load_endpoint(c)
    \/ \E topk \in 1..MaxK : call_search(c, topk)
    \/ \E m \in Models : construct(c, m)

Next == \E c \in Serial : start(c) \/ step(c)

Spec == Init /\ [][Next]_vars

\* Two processes, each with its own client for the same model, each calling
\* load_index() once; their steps interleave, nothing orders them.
InitRace == init({"m1"}, RemoteModels, Clients)

\* Client c has made no call yet.
first_call(c) == call[c].op = "none" /\ prev[c].op = "none"

NextRace ==
    \E c \in Clients :
        \/ first_call(c) /\ call_load_index(c)
        \/ load_index_step(c)

SpecRace == InitRace /\ [][NextRace]_vars

\* ------------------------------------------------------------------ properties
\* The names of the interactions of a trace, in order.
names(trace) == [j \in DOMAIN trace |-> trace[j].ev]

\* How many interactions named ev a trace holds.
count(trace, ev) == Cardinality({j \in DOMAIN trace : trace[j].ev = ev})

\* Client c has finished a public call of operation op.
finished(c, op) == pc[c] = "done" /\ call[c].op = op

\* The number of batches of n passages in batches of b: the least number of
\* batches of b that hold n passages.
batches(n, b) == CHOOSE q \in 0..n : q * b >= n /\ (q = 0 \/ (q - 1) * b < n)

\* The interactions of a create pipeline over q batches, in order.
pipeline(q) ==
    <<"list_index", "create_index">>
    \o [j \in 1..(2 * q) |-> IF j % 2 = 1 THEN "encode" ELSE "stage"]
    \o <<"upload", "update_embeddings">>

\* s is a prefix of t.
prefix(s, t) == Len(s) <= Len(t) /\ SubSeq(t, 1, Len(s)) = s

\* C1: load_index() twice in a row on a client, the index absent when the
\* first call starts: one create request in the two calls together, and the
\* second call only lists the index and binds the handle.
C1_LoadIndexTwiceCreatesOnce ==
    \A c \in Clients :
        (finished(c, "load_index") /\ prev[c].op = "load_index"
            /\ prev[c].index_absent)
        => /\ prev[c].creates + count(call[c].trace, "create_index") = 1
           /\ names(call[c].trace) = <<"list_index", "bind_index">>
           /\ index[c] # None

C1_Witness ==
    \E c \in Clients :
        /\ finished(c, "load_index")
        /\ prev[c].op = "load_index"
        /\ prev[c].index_absent
        /\ prev[c].creates = 1
        /\ call[c].outcome.kind = "ok"

\* C2: load_endpoint() twice in a row on a client, the endpoint absent when
\* the first call starts: one deploy request in the two calls together.
C2_LoadEndpointTwiceDeploysOnce ==
    \A c \in Clients :
        (finished(c, "load_endpoint") /\ prev[c].op = "load_endpoint"
            /\ prev[c].endpoint_absent)
        => prev[c].deploys + count(call[c].trace, "deploy") = 1

\* C3: a load_index() that finds the index absent makes its interactions in
\* the order list, create, (encode, stage) for each batch, upload,
\* bulk-update: at every moment its trace is a prefix of that sequence (up to
\* a failure), and a call that ends without a failure has made them all, each
\* once, and holds the index handle.
C3_CreatePipelineOrder ==
    \A c \in Clients :
        (call[c].op = "load_index" /\ ~call[c].pre.index_exists)
        => LET t == names(call[c].trace)
               whole == pipeline(batches(corpus_size, batch_size))
           IN /\ t # <<>> =>
                    \/ prefix(t, whole)
                    \/ /\ prefix(SubSeq(t, 1, Len(t) - 1), whole)
                       /\ call[c].outcome.kind = "error"
              /\ (pc[c] = "done" /\ call[c].outcome.kind = "ok")
                    => t = whole /\ index[c] # None

C3_Witness ==
    \E c \in Clients :
        /\ finished(c, "load_index")
        /\ ~call[c].pre.index_exists
        /\ call[c].outcome.kind = "ok"
        /\ count(call[c].trace, "stage") >= 2
        /\ index[c] # None

\* C4: a load_index() that finds the index present makes one existence
\* check, binds the handle to the index of that name, makes no create,
\* staging, upload or bulk-update, and leaves tmp.json, the bucket object
\* and the DocMap as they were.
C4_BindOnlyWhenPresent ==
    \A c \in Clients :
        (finished(c, "load_index") /\ call[c].pre.index_exists)
        => /\ names(call[c].trace) = <<"list_index", "bind_index">>
           /\ call[c].outcome.kind = "ok"
           /\ index[c] # None
           /\ indexes[index[c][1]].name = index_name(model[c])
           /\ tmp_file = call[c].pre.tmp_file
           /\ blob = call[c].pre.blob
           /\ doc_map[c] = call[c].pre.doc_map

C4_Witness ==
    \E c \in Clients :
        /\ finished(c, "load_index")
        /\ call[c].pre.index = None
        /\ call[c].pre.index_exists
        /\ tmp_file # <<>>
        /\ index[c] # None

\* The records a finished call of client c appended to tmp.json.
appended(c) ==
    SubSeq(tmp_file, Len(call[c].pre.tmp_file) + 1, Len(tmp_file))

\* The j-th interaction named ev of a trace.
nth(trace, ev, j) ==
    trace[CHOOSE k \in DOMAIN trace :
             /\ trace[k].ev = ev
             /\ Cardinality({i \in 1..k : trace[i].ev = ev}) = j]

\* C5: a pipeline run over N passages in batches of B encodes ceil(N/B)
\* batches, batch i holding passages i*B .. min((i+1)*B, N)-1 and its records
\* the ids from i*B on, and appends to tmp.json the ids 0 .. N-1, each once,
\* in order.
C5_BatchesAndIds ==
    \A c \in Clients :
        (finished(c, "load_index") /\ call[c].outcome.kind = "ok"
            /\ count(call[c].trace, "create_index") = 1)
        => LET N == corpus_size
               B == batch_size
               q == batches(N, B)
               t == call[c].trace
           IN /\ count(t, "encode") = q
              /\ count(t, "stage") = q
              /\ \A i \in 0..(q - 1) :
                    LET size == IF (i + 1) * B <= N THEN B ELSE N - i * B
                    IN /\ nth(t, "encode", i + 1).arg
                            = [k \in 1..size |-> "p" \o ToString(i * B + k - 1)]
                       /\ nth(t, "stage", i + 1).arg
                            = [k \in 1..size |-> ToString(i * B + k - 1)]
              /\ [k \in DOMAIN appended(c) |-> appended(c)[k].id]
                    = [k \in 1..N |-> ToString(k - 1)]

C5_Witness ==
    \E c \in Clients :
        /\ finished(c, "load_index")
        /\ call[c].outcome.kind = "ok"
        /\ count(call[c].trace, "create_index") = 1
        /\ count(call[c].trace, "stage") >= 2
        /\ corpus_size % batch_size # 0
        /\ Len(appended(c)) = corpus_size

\* The integer an id written by format_records stands for.
id_value(id) == CHOOSE i \in 0..(MaxN + 1) : ToString(i) = id

\* The DocMap of client c has an entry for every id of the response.
covered(c) ==
    \A j \in DOMAIN frame[c].response :
        \E i \in DOMAIN doc_map[c] : ToString(i) = frame[c].response[j].id

\* s is ordered by descending distance.
descending(s) ==
    \A a, b \in DOMAIN s : a < b => s[a].distance >= s[b].distance

\* C6: a search() the backend answered, on a client whose DocMap covers the
\* returned ids, returns one Passage for each neighbour: the DocMap entries
\* of the neighbours in descending order of distance.
C6_SearchReturnsPassages ==
    \A c \in Clients :
        (finished(c, "search") /\ frame[c].answered /\ covered(c))
        => /\ call[c].outcome.kind = "ok"
           /\ Len(call[c].outcome.docs) = Len(frame[c].response)
           /\ \E order \in [DOMAIN frame[c].response -> DOMAIN frame[c].response] :
                 LET ranked == [j \in DOMAIN order |-> frame[c].response[order[j]]]
                 IN /\ \A a, b \in DOMAIN order : a # b => order[a] # order[b]
                    /\ descending(ranked)
                    /\ \A j \in DOMAIN ranked :
                          call[c].outcome.docs[j]
                             = doc_map[c][id_value(ranked[j].id)]

provisioned(t) ==
    \/ t = <<"list_index", "bind_index">>
    \/ t = pipeline(batches(corpus_size, batch_size))

\* C8: in a load_endpoint() of a client that holds no index handle, the
\* index provisioning has run to its end and the handle is bound before the
\* endpoint existence check or a deploy: control is at the endpoint part of
\* load_endpoint only with a bound index handle, and what precedes the first
\* endpoint interaction of the call is a whole index provisioning.
C8_IndexBeforeEndpoint ==
    \A c \in Clients :
        /\ pc[c] \in {"endpoint_check", "bind_endpoint", "deploy"}
              => index[c] # None
        /\ \A j \in DOMAIN call[c].trace :
              (call[c].trace[j].ev \in {"list_endpoint", "deploy"}
                  /\ call[c].pre.index = None)
              => /\ j > 1
                 /\ LET first == CHOOSE k \in 1..j :
                           /\ call[c].trace[k].ev \in {"list_endpoint", "deploy"}
                           /\ \A i \in 1..(k - 1) :
                                 call[c].trace[i].ev
                                    \notin {"list_endpoint", "deploy"}
                    IN provisioned(SubSeq(names(call[c].trace), 1, first - 1))

C8_Witness ==
    \E c \in Clients :
        /\ pc[c] = "endpoint_check"
        /\ call[c].op = "load_endpoint"
        /\ call[c].pre.index = None
        /\ count(call[c].trace, "update_embeddings") = 1
        /\ index[c] # None

\* C9: a match request is made only with a bound endpoint handle: control
\* is at the match request only with the handle bound, and in a search() of
\* a client that held no endpoint handle the match request comes after the
\* endpoint existence check and the bind or deploy that ended load_endpoint.
C9_MatchOnlyWithEndpoint ==
    \A c \in Clients :
        /\ pc[c] \in {"match", "map"} => endpoint[c] # None
        /\ \A j \in DOMAIN call[c].trace :
              call[c].trace[j].ev = "match"
              => /\ endpoint[c] # None
                 /\ call[c].pre.endpoint = None
                    => \E i, k \in 1..(j - 1) :
                          /\ i < k
                          /\ call[c].trace[i].ev = "list_endpoint"
                          /\ call[c].trace[k].ev \in {"bind_endpoint", "deploy"}

C9_Witness ==
    \E c \in Clients :
        /\ pc[c] = "map"
        /\ call[c].pre.endpoint = None
        /\ count(call[c].trace, "match") = 1
        /\ endpoint[c] # None

\* C10, as claimed: load_index() on a client that holds an index handle
\* makes no remote request and changes nothing.
C10_NoOpWhenHandleHeld ==
    \A c \in Clients :
        (finished(c, "load_index") /\ call[c].pre.index # None)
        => /\ call[c].trace = <<>>
           /\ index[c] = call[c].pre.index
           /\ doc_map[c] = call[c].pre.doc_map
           /\ tmp_file = call[c].pre.tmp_file

\* C10, amended: load_index() on a client that holds an index handle, the
\* index of its name existing remotely, makes one existence check, binds the
\* handle again to an index of that name, makes no create, staging, upload
\* or bulk-update, and leaves the DocMap, tmp.json and the bucket object as
\* they were.
C10_RecheckWhenHandleHeld ==
    \A c \in Clients :
        (finished(c, "load_index") /\ call[c].pre.index # None
            /\ call[c].pre.index_exists)
        => /\ count(call[c].trace, "list_index") = 1
           /\ count(call[c].trace, "bind_index") = 1
           /\ Len(call[c].trace) = 2
           /\ index[c] # None
           /\ index[c][1] \in index_ids(index_name(model[c]))
           /\ doc_map[c] = call[c].pre.doc_map
           /\ tmp_file = call[c].pre.tmp_file
           /\ blob = call[c].pre.blob

C10_Witness ==
    \E c \in Clients :
        /\ finished(c, "load_index")
        /\ call[c].pre.index # None
        /\ call[c].pre.index_exists
        /\ call[c].pre.doc_map # <<>>
        /\ count(call[c].trace, "list_index") = 1

\* The ids of the records of a sequence of staged records.
ids_of(records) == {records[j].id : j \in DOMAIN records}

\* C11: at every moment every id of the DocMap of a client is the id of a
\* record that has been staged in tmp.json and uploaded to the bucket.
C11_DocMapIdsUploaded ==
    \A c \in Clients :
        \A i \in DOMAIN doc_map[c] :
            /\ ToString(i) \in ids_of(tmp_file)
            /\ blob.exists
            /\ ToString(i) \in ids_of(blob.data)

\* C12: when the embedding model fails on batch j of a create pipeline, the
\* public call ends in that error, no upload and no bulk-update is made in
\* the call, and tmp.json keeps what it held plus the records of batches
\* 0 .. j-1.
C12_EncodeFailureAborts ==
    \A c \in Clients :
        count(call[c].trace, "encode_failed") > 0
        => LET t == call[c].trace
               j == count(t, "stage")
               staged == Min(j * batch_size, corpus_size)
           IN /\ pc[c] = "done"
              /\ call[c].outcome.kind = "error"
              /\ call[c].outcome.err = "ModelError"
              /\ t[Len(t)].ev = "encode_failed"
              /\ count(t, "encode") = j
              /\ count(t, "upload") = 0
              /\ count(t, "update_embeddings") = 0
              /\ Len(tmp_file) = Len(call[c].pre.tmp_file) + staged
              /\ SubSeq(tmp_file, 1, Len(call[c].pre.tmp_file))
                    = call[c].pre.tmp_file
              /\ [k \in 1..staged |->
                     tmp_file[Len(call[c].pre.tmp_file) + k].id]
                    = [k \in 1..staged |-> ToString(k - 1)]
              /\ blob = call[c].pre.blob

C12_Witness ==
    \E c \in Clients :
        /\ pc[c] = "done"
        /\ count(call[c].trace, "encode_failed") = 1
        /\ count(call[c].trace, "stage") >= 1
        /\ call[c].outcome.kind = "error"
        /\ Len(tmp_file) > Len(call[c].pre.tmp_file)

\* The remote indexes the clients created.
created == {r \in DOMAIN indexes : indexes[r].by # 0}

\* How many records of a sequence carry the id.
copies(records, id) == Cardinality({j \in DOMAIN records : records[j].id = id})

\* When every pipeline that was started has run to its bulk-update, tmp.json
\* holds the corpus once for each of them and the bucket object holds all of it.
accumulated ==
    (\A r \in created : indexes[r].updates >= 1)
    => /\ Len(tmp_file) = Cardinality(created) * corpus_size
       /\ \A i \in 0..(corpus_size - 1) :
             copies(tmp_file, ToString(i)) = Cardinality(created)
       /\ created # {} => blob.exists /\ blob.data = tmp_file

\* C13: tmp.json is append-only: every step leaves what it held as a prefix
\* of what it holds; m whole pipeline runs over the corpus of N passages
\* leave m*N records, every id of 0 .. N-1 m times; and an upload puts the
\* whole of tmp.json in the bucket.
C13_StagingAppendOnly ==
    /\ [][prefix(tmp_file, tmp_file')]_vars
    /\ [][blob' # blob => (blob'.exists /\ blob'.data = tmp_file)]_vars
    /\ []accumulated

C13_Witness ==
    /\ Cardinality(created) = 2
    /\ \A r \in created : indexes[r].updates = 1
    /\ corpus_size >= 2
    /\ Len(tmp_file) = 2 * corpus_size
    /\ blob.data = tmp_file

\* C14: every record bulk-loaded into an index has an embedding whose length
\* is the dimension the index was configured with.
C14_RecordDimensionMatches ==
    \A r \in DOMAIN indexes :
        \A j \in DOMAIN indexes[r].records :
            Len(indexes[r].records[j].embedding) = indexes[r].dim

\* No step deletes or renames a remote index.
index_kept ==
    \A r \in DOMAIN indexes :
        r \in DOMAIN indexes' /\ indexes'[r].name = indexes[r].name

\* Every existence check of the trace found the index and was followed by the
\* bind, and nothing was created or bulk-updated.
bind_only(t) ==
    /\ count(t, "create_index") = 0
    /\ count(t, "update_embeddings") = 0
    /\ \A j \in DOMAIN t :
          t[j].ev = "list_index" => j < Len(t) /\ t[j + 1].ev = "bind_index"

\* C16: with one client after another making sequential calls, there is at
\* most one remote index of each display name, no index is bulk-updated more
\* than once, no step deletes an index, and a client built when the index of
\* its name existed only ever binds it.
C16_CreatedOnceAcrossRestarts ==
    /\ [](\A m \in Models : Cardinality(index_ids(index_name(m))) <= 1)
    /\ [](\A r \in DOMAIN indexes : indexes[r].updates <= 1)
    /\ [][index_kept]_vars
    /\ [](\A c \in Serial :
            existed[c] /\ pc[c] \in {"idle", "done"} => bind_only(call[c].trace))

C16_Witness ==
    \E c \in Serial :
        /\ existed[c]
        /\ finished(c, "load_index")
        /\ names(call[c].trace) = <<"list_index", "bind_index">>
        /\ index[c] # None
        /\ indexes[index[c][1]].by # 0
        /\ indexes[index[c][1]].updates = 1
        /\ prev[c].op = "none"

\* C17: between public operations a client holds an index handle only if the
\* index of its name existed when the client first checked, or the index it
\* holds has had its bulk-update triggered.
C17_HandleOnlyWhenLoaded ==
    \A c \in Clients :
        pc[c] \in {"idle", "done"} /\ index[c] # None
        => existed[c] \/ indexes[index[c][1]].updates >= 1

\* C18: a match request of search() names a deployed index that is deployed,
\* under the display name of the index, on the endpoint the client has bound.
C18_MatchOnDeployedIndex ==
    \A c \in Clients :
        call[c].op = "search" /\ count(call[c].trace, "match") > 0
        => /\ endpoint[c] # None
           /\ index[c] # None
           /\ \E d \in endpoints[endpoint[c][1]] :
                 /\ d.deployed_index_id = index_name(model[c])
                 /\ d.index = index[c][1]

\* C15: with two clients of one display name running load_index() at the
\* same time, nothing holds back a client whose existence check found the
\* index absent: its create request can always be made, and it makes one
\* more remote index of that name whether or not another client has made
\* one since the check.
C15_ConcurrentCreatesNotExcluded ==
    /\ [](\A c \in Clients : pc[c] = "create_index" => ENABLED create_index(c))
    /\ [][\A c \in Clients :
            pc[c] = "create_index" /\ pc'[c] # "create_index"
            => /\ Len(indexes') = Len(indexes) + 1
               /\ indexes'[Len(indexes')].name = index_name(model[c])
               /\ indexes'[Len(indexes')].by = c
               /\ index'[c] = <<Len(indexes')>>]_vars

\* Both existence checks came before either create: there are two remote
\* indexes of the one display name, one made by each client.
C15_Witness ==
    /\ model[1] = model[2]
    /\ ~existed[1] /\ ~existed[2]
    /\ \E r1, r2 \in DOMAIN indexes :
          /\ r1 # r2
          /\ indexes[r1].name = index_name(model[1])
          /\ indexes[r2].name = index_name(model[1])
          /\ indexes[r1].by = 1
          /\ indexes[r2].by = 2

====
